---- MODULE Spec2Model ----
(***************************************************************************)
(* Model of the library catalog (src/unnamed/part_000) and of the          *)
(* university roster (src/main.ts).  Objects live in heaps (sequences);    *)
(* a reference is the position of the object in its heap, which is kept    *)
(* apart from the object's id field.  Strings are sequences of one-letter  *)
(* strings so that case conversion and containment are computed.           *)
(***************************************************************************)
EXTENDS Integers, Sequences, FiniteSets, TLC

\* ---------------------------------------------------------------- bounds
MaxAuthors == 2
MaxBookObjects == 3
MaxPeople == 3
MaxEnrolled == 2
MaxStudents == 1

\* ------------------------------------------------------ optional values
\* A value that may be undefined: the empty set, or the singleton of the value.
Undefined == {}

Some(x) == {x}

IsDefined(v) == v # Undefined

Get(v) == CHOOSE x \in v : TRUE

\* ---------------------------------------------------------------- strings
UpperCaseLetters == <<"A","B","C","D","E","F","G","H","I","J","K","L","M","N","O","P","Q","R","S","T","U","V","W","X","Y","Z">>

LowerCaseLetters == <<"a","b","c","d","e","f","g","h","i","j","k","l","m","n","o","p","q","r","s","t","u","v","w","x","y","z">>

LowerChar(c) ==
    IF \E k \in DOMAIN UpperCaseLetters : UpperCaseLetters[k] = c
    THEN LowerCaseLetters[CHOOSE k \in DOMAIN UpperCaseLetters : UpperCaseLetters[k] = c]
    ELSE c

toLowerCase(s) == [i \in DOMAIN s |-> LowerChar(s[i])]

\* String.prototype.includes: needle occurs in hay at some offset.
includes(hay, needle) ==
    \E i \in 0..(Len(hay) - Len(needle)) : SubSeq(hay, i + 1, i + Len(needle)) = needle

\* The strings of the demo script and of the queries tried on it.
HarryPotter == <<"H","a","r","r","y"," ","P","o","t","t","e","r">>

GameOfThrones == <<"G","a","m","e"," ","o","f"," ","T","h","r","o","n","e","s">>

AClashOfKings == <<"A"," ","C","l","a","s","h"," ","o","f"," ","K","i","n","g","s">>

Fantasy == <<"F","a","n","t","a","s","y">>

War == <<"W","a","r">>

JKRowling == <<"J",".","K","."," ","R","o","w","l","i","n","g">>

GRRMartin == <<"G","e","o","r","g","e"," ","R",".","R","."," ","M","a","r","t","i","n">>

Harry == <<"H","a","r","r","y">>

EmptyString == <<>>

AuthorNames == {JKRowling, GRRMartin}

BookInfos ==
    { [title |-> HarryPotter,   genre |-> Fantasy, year |-> 1997],
      [title |-> GameOfThrones, genre |-> Fantasy, year |-> 1996],
      [title |-> AClashOfKings, genre |-> War,     year |-> 1998] }

\* Criteria objects: each field is supplied (Some) or omitted (Undefined).
Criteria(t, g, y, a) == [title |-> t, genre |-> g, year |-> y, authorName |-> a]

CriteriaSet ==
    { Criteria(Some(Harry), Some(Fantasy), Undefined, Undefined),
      Criteria(Some(toLowerCase(Harry)), Undefined, Undefined, Undefined),
      Criteria(Undefined, Undefined, Some(1998), Some(toLowerCase(JKRowling))),
      Criteria(Some(EmptyString), Undefined, Some(0), Undefined),
      Criteria(Undefined, Undefined, Undefined, Undefined) }

\* The maxBooks values libraries are constructed with; 100 is the demo script's.
MaxBooksValues == <<100, 1, 0>>

VARIABLES
    authorNextId,   \* Author.nextId
    bookNextId,     \* Book.nextId
    authorObjects,  \* every Author constructed, in construction order
    bookObjects,    \* every Book constructed, in construction order
    library,        \* the Library object (maxBooks, books, authors), once constructed
    offered,        \* history: the books addBook has been called with so far
    personNextId,   \* Person.nextId
    personObjects,  \* every Person (Teacher or Student) constructed
    students,       \* Group.students: references into personObjects
    removed,        \* history: the students removeStudentById has taken out so far
    leftActive,     \* history: the students whose status was ever set to a non-active one
    call            \* the last call made and how it ended

vars == <<authorNextId, bookNextId, authorObjects, bookObjects, library, offered,
          personNextId, personObjects, students, removed, leftActive, call>>

libraryVars == <<authorNextId, bookNextId, authorObjects, bookObjects, library, offered>>

universityVars == <<personNextId, personObjects, students, removed, leftActive>>

\* How a call ends: it returns, or throws one of these errors.
Returned(op, arg, value) == [op |-> op, arg |-> arg, kind |-> "ok", value |-> value]

Threw(op, arg, error) == [op |-> op, arg |-> arg, kind |-> error, value |-> Undefined]

\* ---------------------------------------------------------------- Library
\* new Library(name, maxBooks): books and authors are declared, never assigned.
NewLibrary(maxBooks) == [maxBooks |-> maxBooks, books |-> Undefined, authors |-> Undefined]

\* new Author(name): the object, and Author.nextId after the post-increment.
AuthorConstructor(name) ==
    [obj |-> [name |-> name, id |-> authorNextId], nextId |-> authorNextId + 1]

\* new Book({title, genre, year, author}): the object, and Book.nextId afterwards.
BookConstructor(info, author) ==
    [obj |-> [title |-> info.title, genre |-> info.genre, year |-> info.year,
              author |-> author, id |-> bookNextId],
     nextId |-> bookNextId + 1]

\* The elements of a list.
Range(list) == {list[i] : i \in DOMAIN list}

\* Array.prototype.includes on a list of references.
ArrayIncludes(list, ref) == \E i \in DOMAIN list : list[i] = ref

\* Array.prototype.find and findIndex stop at the first match: the least index.
FirstIndex(indices) == CHOOSE i \in indices : \A j \in indices : i <= j

\* Library.addBook: the outcome and the library after the call.
addBook(lib, book) ==
    IF ~IsDefined(lib.books)
    THEN [kind |-> "TypeError", lib |-> lib]
    ELSE IF ArrayIncludes(Get(lib.books), book)
    THEN [kind |-> "LibraryError", lib |-> lib]
    ELSE IF Len(Get(lib.books)) >= lib.maxBooks
    THEN [kind |-> "LibraryError", lib |-> lib]
    ELSE IF ~IsDefined(lib.authors)
    THEN [kind |-> "TypeError",
          lib |-> [lib EXCEPT !.books = Some(Append(Get(lib.books), book))]]
    ELSE [kind |-> "ok",
          lib |-> [lib EXCEPT !.books = Some(Append(Get(lib.books), book)),
                              !.authors = Some(Append(Get(lib.authors),
                                                      bookObjects[book].author))]]

\* Library.getBookById
getBookById(lib, id) ==
    LET books == Get(lib.books)
        matches == {i \in DOMAIN books : bookObjects[books[i]].id = id}
    IN IF matches = {} THEN Undefined ELSE Some(books[FirstIndex(matches)])

\* Library.getAuthorById
getAuthorById(lib, id) ==
    LET authors == Get(lib.authors)
        matches == {i \in DOMAIN authors : authorObjects[authors[i]].id = id}
    IN IF matches = {} THEN Undefined ELSE Some(authors[FirstIndex(matches)])

\* Library.getAuthorByBookId: how the call ends.
getAuthorByBookId(lib, id) ==
    IF ~IsDefined(lib.books)
    THEN Threw("getAuthorByBookId", id, "TypeError")
    ELSE IF ~IsDefined(getBookById(lib, id))
    THEN Threw("getAuthorByBookId", id, "LibraryError")
    ELSE IF ~IsDefined(lib.authors)
    THEN Threw("getAuthorByBookId", id, "TypeError")
    ELSE Returned("getAuthorByBookId", id,
                  getAuthorById(lib, authorObjects[bookObjects[Get(getBookById(lib, id))].author].id))

\* A criteria field counts only when it is truthy: supplied, and neither "" nor 0.
TruthyString(f) == IsDefined(f) /\ Get(f) # EmptyString

TruthyNumber(f) == IsDefined(f) /\ Get(f) # 0

\* The filter callback of Library.search.
searchMatches(book, criteria) ==
    LET b == bookObjects[book]
        matchesTitle == IF TruthyString(criteria.title)
                        THEN includes(toLowerCase(b.title), toLowerCase(Get(criteria.title)))
                        ELSE FALSE
        matchesGenre == IF TruthyString(criteria.genre)
                        THEN includes(toLowerCase(b.genre), toLowerCase(Get(criteria.genre)))
                        ELSE FALSE
        matchesYear == IF TruthyNumber(criteria.year)
                       THEN b.year = Get(criteria.year)
                       ELSE FALSE
        matchesAuthor == IF TruthyString(criteria.authorName)
                         THEN includes(toLowerCase(authorObjects[b.author].name),
                                       toLowerCase(Get(criteria.authorName)))
                         ELSE FALSE
    IN matchesTitle \/ matchesGenre \/ matchesYear \/ matchesAuthor

\* Library.search: how the call ends.
search(lib, criteria) ==
    IF ~IsDefined(lib.books)
    THEN Threw("search", criteria, "TypeError")
    ELSE LET P(b) == searchMatches(b, criteria)
         IN Returned("search", criteria, SelectSeq(Get(lib.books), P))

\* ------------------------------------------------------------- University
AcademicStatus == {"active", "academic leave", "graduated", "expelled"}

\* Course objects handed to enrollCourse.
Courses ==
    { [name |-> "Algorithms", discipline |-> "Computer Science", credits |-> 3],
      [name |-> "Algebra",    discipline |-> "Mathematics",      credits |-> 5],
      [name |-> "Mechanics",  discipline |-> "Physics",          credits |-> 4] }

\* Values a caller assigns to academicPerformance.gpa.
GpaValues == {0, 4}

\* Faulty variant: the constructor forgets the increment of Person.nextId.
PersonConstructor_NoIncrement(role) ==
    [obj |-> [id |-> personNextId, role |-> role], nextId |-> personNextId]

\* new Person(info, role): the object, and Person.nextId after the post-increment.
PersonConstructor(role) ==
    [obj |-> [id |-> personNextId, role |-> role], nextId |-> personNextId + 1]

\* new Teacher(info, specializations)
TeacherConstructor ==
    LET super == PersonConstructor("teacher")
    IN [obj |-> [id |-> super.obj.id, role |-> super.obj.role, courses |-> <<>>],
        nextId |-> super.nextId]

\* new Student(info)
StudentConstructor ==
    LET super == PersonConstructor("student")
    IN [obj |-> [id |-> super.obj.id, role |-> super.obj.role,
                 academicPerformance |-> [totalCredits |-> 0, gpa |-> 0],
                 enrolledCourses |-> <<>>,
                 status |-> "active"],
        nextId |-> super.nextId]

IsStudent(ref) == personObjects[ref].role = "student"

\* Faulty variant: enrollCourse without the status guard.
enrollCourse_NoStatusGuard(student, course) ==
    [kind |-> "ok",
     student |-> [student EXCEPT
                    !.enrolledCourses = Append(@, course),
                    !.academicPerformance.totalCredits = @ + course.credits]]

\* Student.enrollCourse: the outcome and the student after the call.
enrollCourse(student, course) ==
    IF student.status # "active"
    THEN [kind |-> "UniversityError", student |-> student]
    ELSE [kind |-> "ok",
          student |-> [student EXCEPT
                         !.enrolledCourses = Append(@, course),
                         !.academicPerformance.totalCredits = @ + course.credits]]

\* Student.updateAcademicStatus
updateAcademicStatus(student, newStatus) == [student EXCEPT !.status = newStatus]

\* Student.getAverageScore
getAverageScore(student) == student.academicPerformance.gpa

\* Faulty variant: addStudent without the membership guard.
addStudent_NoMembershipGuard(list, student) ==
    [kind |-> "ok", students |-> Append(list, student)]

\* Group.addStudent: the outcome and Group.students after the call.
addStudent(list, student) ==
    IF ArrayIncludes(list, student)
    THEN [kind |-> "UniversityError", students |-> list]
    ELSE [kind |-> "ok", students |-> Append(list, student)]

\* Array.prototype.findIndex by student id: a 0-based index, or -1.
findIndexById(list, id) ==
    LET matches == {i \in DOMAIN list : personObjects[list[i]].id = id}
    IN IF matches = {} THEN -1 ELSE FirstIndex(matches) - 1

\* The bitwise complement ~n of a 32-bit integer.
BitNot(n) == -(n + 1)

\* !~index: true exactly when ~index is 0.
NotFound(index) == BitNot(index) = 0

Max(a, b) == IF a >= b THEN a ELSE b

Min(a, b) == IF a <= b THEN a ELSE b

\* Array.prototype.splice(start, deleteCount): the list that remains.
splice(list, start, deleteCount) ==
    LET len == Len(list)
        actualStart == IF start < 0 THEN Max(len + start, 0) ELSE Min(start, len)
        actualDeleteCount == Min(Max(deleteCount, 0), len - actualStart)
    IN SubSeq(list, 1, actualStart) \o SubSeq(list, actualStart + actualDeleteCount + 1, len)

\* Faulty variant: the lookup returns the index without the not-found guard.
getStudentIdByGroup_NoThrow(list, id) ==
    [kind |-> "ok", index |-> findIndexById(list, id)]

\* Group.getStudentIdByGroup: throws, or returns the index.
getStudentIdByGroup(list, id) ==
    LET index == findIndexById(list, id)
    IN IF NotFound(index)
       THEN [kind |-> "UniversityError", index |-> index]
       ELSE [kind |-> "ok", index |-> index]

\* Group.removeStudentById (first definition, through getStudentIdByGroup).
removeStudentById(list, id) ==
    LET found == getStudentIdByGroup(list, id)
    IN IF found.kind # "ok"
       THEN [kind |-> found.kind, students |-> list]
       ELSE [kind |-> "ok", students |-> splice(list, found.index, 1)]

\* Group.removeStudentById (second definition, with the lookup inline).
removeStudentById2(list, id) ==
    LET index == findIndexById(list, id)
    IN IF NotFound(index)
       THEN [kind |-> "UniversityError", students |-> list]
       ELSE [kind |-> "ok", students |-> splice(list, index, 1)]

\* Array.prototype.reduce summing getAverageScore, from 0.
RECURSIVE reduceScores(_, _)
reduceScores(list, sum) ==
    IF list = <<>> THEN sum
    ELSE reduceScores(Tail(list), sum + getAverageScore(personObjects[Head(list)]))

\* A number as a quotient; a quotient of 0 by 0 is NaN.
Number(n) == [num |-> n, den |-> 1]

Divide(a, b) == [num |-> a, den |-> b]

IsNaN(x) == x.num = 0 /\ x.den = 0

NumberEquals(x, y) == x.den # 0 /\ y.den # 0 /\ x.num * y.den = y.num * x.den

\* Faulty variant: the guard tests for the empty roster.
getAverageGroupScore_GuardNegated(list) ==
    IF Len(list) = 0
    THEN [returned |-> Number(0), divisor |-> Undefined]
    ELSE [returned |-> Divide(reduceScores(list, 0), Len(list)), divisor |-> Some(Len(list))]

\* Group.getAverageGroupScore: the number returned, and the divisor when the
\* sum-and-divide computation was reached.
getAverageGroupScore(list) ==
    IF Len(list) # 0
    THEN [returned |-> Number(0), divisor |-> Undefined]
    ELSE LET totalScore == reduceScores(list, 0)
         IN [returned |-> Divide(totalScore, Len(list)), divisor |-> Some(Len(list))]

\* ---------------------------------------------------------------- actions
NewTeacher ==
    /\ Len(personObjects) < MaxPeople
    /\ personObjects' = Append(personObjects, TeacherConstructor.obj)
    /\ personNextId' = TeacherConstructor.nextId
    /\ call' = Returned("new Teacher", Undefined, Len(personObjects) + 1)
    /\ UNCHANGED <<libraryVars, students, removed, leftActive>>

NewStudent ==
    /\ Len(personObjects) < MaxPeople
    /\ personObjects' = Append(personObjects, StudentConstructor.obj)
    /\ personNextId' = StudentConstructor.nextId
    /\ call' = Returned("new Student", Undefined, Len(personObjects) + 1)
    /\ UNCHANGED <<libraryVars, students, removed, leftActive>>

\* A caller's direct assignment student.academicPerformance.gpa = gpa.
SetGpa ==
    /\ \E s \in DOMAIN personObjects, gpa \in GpaValues :
         /\ IsStudent(s)
         /\ personObjects' = [personObjects EXCEPT ![s].academicPerformance.gpa = gpa]
         /\ call' = Returned("set gpa", [student |-> s, gpa |-> gpa], Undefined)
    /\ UNCHANGED <<libraryVars, personNextId, students, removed, leftActive>>

EnrollCourse ==
    /\ \E s \in DOMAIN personObjects, course \in Courses :
         /\ IsStudent(s)
         /\ IF personObjects[s].status = "active"
            THEN Len(personObjects[s].enrolledCourses) < MaxEnrolled
            ELSE TRUE
         /\ personObjects' =
              [personObjects EXCEPT ![s] = enrollCourse(personObjects[s], course).student]
         /\ call' = [op |-> "enrollCourse", arg |-> [student |-> s, course |-> course],
                     kind |-> enrollCourse(personObjects[s], course).kind,
                     value |-> Undefined]
    /\ UNCHANGED <<libraryVars, personNextId, students, removed, leftActive>>

UpdateAcademicStatus ==
    /\ \E s \in DOMAIN personObjects, newStatus \in AcademicStatus :
         /\ IsStudent(s)
         /\ personObjects' =
              [personObjects EXCEPT ![s] = updateAcademicStatus(personObjects[s], newStatus)]
         /\ leftActive' = IF newStatus # "active" THEN leftActive \cup {s} ELSE leftActive
         /\ call' = Returned("updateAcademicStatus",
                             [student |-> s, newStatus |-> newStatus], Undefined)
    /\ UNCHANGED <<libraryVars, personNextId, students, removed>>

AddStudent ==
    /\ \E s \in DOMAIN personObjects :
         /\ IsStudent(s)
         /\ students' = addStudent(students, s).students
         /\ call' = [op |-> "addStudent", arg |-> s,
                     kind |-> addStudent(students, s).kind, value |-> Undefined]
    /\ UNCHANGED <<libraryVars, personNextId, personObjects, removed, leftActive>>

RemoveStudentById ==
    /\ \E id \in 0..(MaxPeople + 1) :
         /\ students' = removeStudentById(students, id).students
         /\ removed' = removed \cup (Range(students) \ Range(students'))
         /\ call' = [op |-> "removeStudentById", arg |-> id,
                     kind |-> removeStudentById(students, id).kind, value |-> Undefined]
    /\ UNCHANGED <<libraryVars, personNextId, personObjects, leftActive>>

RemoveStudentById2 ==
    /\ \E id \in 0..(MaxPeople + 1) :
         /\ students' = removeStudentById2(students, id).students
         /\ removed' = removed \cup (Range(students) \ Range(students'))
         /\ call' = [op |-> "removeStudentById", arg |-> id,
                     kind |-> removeStudentById2(students, id).kind, value |-> Undefined]
    /\ UNCHANGED <<libraryVars, personNextId, personObjects, leftActive>>

GetAverageGroupScore ==
    /\ call' = Returned("getAverageGroupScore", Undefined, getAverageGroupScore(students))
    /\ UNCHANGED <<libraryVars, universityVars>>

NewAuthor ==
    /\ Len(authorObjects) < MaxAuthors
    /\ \E name \in AuthorNames :
         /\ authorObjects' = Append(authorObjects, AuthorConstructor(name).obj)
         /\ authorNextId' = AuthorConstructor(name).nextId
         /\ call' = Returned("new Author", name, Len(authorObjects) + 1)
    /\ UNCHANGED <<bookNextId, bookObjects, library, offered, universityVars>>

NewBook ==
    /\ Len(bookObjects) < MaxBookObjects
    /\ \E info \in BookInfos, author \in DOMAIN authorObjects :
         /\ bookObjects' = Append(bookObjects, BookConstructor(info, author).obj)
         /\ bookNextId' = BookConstructor(info, author).nextId
         /\ call' = Returned("new Book", info.title, Len(bookObjects) + 1)
    /\ UNCHANGED <<authorNextId, authorObjects, library, offered, universityVars>>

\* const library = new Library(name, maxBooks)
ConstructLibrary ==
    /\ ~IsDefined(library)
    /\ \E i \in DOMAIN MaxBooksValues :
         /\ library' = Some(NewLibrary(MaxBooksValues[i]))
         /\ call' = Returned("new Library", MaxBooksValues[i], Undefined)
    /\ UNCHANGED <<authorNextId, bookNextId, authorObjects, bookObjects, offered,
                   universityVars>>

AddBook ==
    /\ IsDefined(library)
    /\ \E book \in DOMAIN bookObjects :
         /\ library' = Some(addBook(Get(library), book).lib)
         /\ offered' = offered \cup {book}
         /\ call' = [op |-> "addBook", arg |-> book,
                     kind |-> addBook(Get(library), book).kind,
                     value |-> [again |-> book \in offered]]
    /\ UNCHANGED <<authorNextId, bookNextId, authorObjects, bookObjects, universityVars>>

GetAuthorByBookId ==
    /\ IsDefined(library)
    /\ \E id \in 0..(MaxBookObjects + 1) :
         call' = getAuthorByBookId(Get(library), id)
    /\ UNCHANGED <<libraryVars, universityVars>>

Search ==
    /\ IsDefined(library)
    /\ \E criteria \in CriteriaSet :
         call' = search(Get(library), criteria)
    /\ UNCHANGED <<libraryVars, universityVars>>

Init ==
    /\ authorNextId = 1
    /\ bookNextId = 1
    /\ authorObjects = <<>>
    /\ bookObjects = <<>>
    /\ library = Undefined
    /\ offered = {}
    /\ personNextId = 1
    /\ personObjects = <<>>
    /\ students = <<>>
    /\ removed = {}
    /\ leftActive = {}
    /\ call = Returned("start", Undefined, Undefined)

NextLibrary ==
    ConstructLibrary \/ NewAuthor \/ NewBook \/ AddBook \/ GetAuthorByBookId \/ Search

SpecLibrary == Init /\ [][NextLibrary]_vars

\* At most MaxStudents students are constructed in this specification.
NextStudent ==
    (Len(personObjects) < MaxStudents /\ NewStudent) \/ EnrollCourse \/ UpdateAcademicStatus

SpecStudent == Init /\ [][NextStudent]_vars

NextGroup ==
    \/ NewStudent \/ NewTeacher \/ SetGpa \/ AddStudent
    \/ RemoveStudentById \/ RemoveStudentById2 \/ GetAverageGroupScore

SpecGroup == Init /\ [][NextGroup]_vars

NextIds == NewAuthor \/ NewBook \/ NewTeacher \/ NewStudent

SpecIds == Init /\ [][NextIds]_vars

Next == NextLibrary \/ NextStudent \/ NextGroup

Spec == Init /\ [][Next]_vars

\* ----------------------------------------------------------------- claims
\* The books and authors a library holds; none when the list was never assigned.
Held(list) == IF IsDefined(list) THEN Get(list) ELSE <<>>

NoDuplicates(list) == \A i, j \in DOMAIN list : i # j => list[i] # list[j]

\* C1: addBook of a book the library does not hold, while it holds fewer than
\* maxBooks books, succeeds and appends the book to books and its author to authors.
C1_AddBookAppends ==
    [][call'.op = "addBook" =>
         LET lib == Get(library)
             book == call'.arg
         IN (~ArrayIncludes(Held(lib.books), book) /\ Len(Held(lib.books)) < lib.maxBooks)
            => /\ call'.kind = "ok"
               /\ Get(library').books = Some(Append(Held(lib.books), book))
               /\ Get(library').authors =
                    Some(Append(Held(lib.authors), bookObjects[book].author))]_vars

C3_CapacityBound ==
    [][call'.op = "addBook" =>
         LET lib == Get(library)
         IN (/\ lib.maxBooks >= 0
             /\ Len(Held(lib.books)) = lib.maxBooks
             /\ ~ArrayIncludes(Held(lib.books), call'.arg))
            => /\ call'.kind = "LibraryError"
               /\ library' = library]_vars

\* The match the claim describes: some supplied field matches.
SuppliedMatches(book, criteria) ==
    LET b == bookObjects[book]
    IN \/ IsDefined(criteria.title)
          /\ includes(toLowerCase(b.title), toLowerCase(Get(criteria.title)))
       \/ IsDefined(criteria.genre)
          /\ includes(toLowerCase(b.genre), toLowerCase(Get(criteria.genre)))
       \/ IsDefined(criteria.year) /\ b.year = Get(criteria.year)
       \/ IsDefined(criteria.authorName)
          /\ includes(toLowerCase(authorObjects[b.author].name),
                      toLowerCase(Get(criteria.authorName)))

\* C4: search returns, in insertion order, exactly the books of the library for
\* which at least one supplied criteria field matches.
C4_SearchIsFlatOr ==
    call.op = "search" =>
        LET P(b) == SuppliedMatches(b, call.arg)
        IN /\ call.kind = "ok"
           /\ call.value = SelectSeq(Held(Get(library).books), P)

\* C5: enrollCourse on a student who is not active ends in UniversityError and
\* changes nothing; on an active student it appends the course and adds its
\* credits to totalCredits; updateAcademicStatus sets the status whatever it was.
C5_EnrollRequiresActive ==
    [][/\ call'.op = "enrollCourse" =>
            LET s == call'.arg.student
                course == call'.arg.course
                old == personObjects[s]
                new == personObjects'[s]
            IN /\ \A o \in DOMAIN personObjects : o # s => personObjects'[o] = personObjects[o]
               /\ IF old.status # "active"
                  THEN call'.kind = "UniversityError" /\ new = old
                  ELSE /\ call'.kind = "ok"
                       /\ new.enrolledCourses = Append(old.enrolledCourses, course)
                       /\ new.academicPerformance.totalCredits =
                            old.academicPerformance.totalCredits + course.credits
                       /\ new.status = "active"
       /\ call'.op = "updateAcademicStatus" =>
            LET s == call'.arg.student
            IN /\ call'.kind = "ok"
               /\ personObjects'[s].status = call'.arg.newStatus
               /\ personObjects'[s].enrolledCourses = personObjects[s].enrolledCourses
               /\ personObjects'[s].academicPerformance = personObjects[s].academicPerformance
      ]_vars

\* An active student who was away from active earlier has enrolled a second course.
C5_Witness ==
    /\ call.op = "enrollCourse"
    /\ call.kind = "ok"
    /\ call.arg.student \in leftActive
    /\ Len(personObjects[call.arg.student].enrolledCourses) = 2

\* C6: removeStudentById with an id no member has ends in UniversityError and
\* leaves the roster as it was; with a member's id it removes that member alone
\* and keeps the others in their order.
C6_RemoveStudentById ==
    [][call'.op = "removeStudentById" =>
         LET id == call'.arg
             Keeps(ref) == personObjects[ref].id # id
         IN IF \A i \in DOMAIN students : Keeps(students[i])
            THEN call'.kind = "UniversityError" /\ students' = students
            ELSE /\ call'.kind = "ok"
                 /\ students' = SelectSeq(students, Keeps)
                 /\ Len(students') = Len(students) - 1]_vars

\* A roster of two or more was asked to remove the id of a person outside it.
C6_Witness ==
    /\ call.op = "removeStudentById"
    /\ call.kind = "UniversityError"
    /\ Len(students) >= 2
    /\ \E p \in DOMAIN personObjects :
         personObjects[p].id = call.arg /\ ~ArrayIncludes(students, p)

\* C7: the roster never holds a student twice: addStudent of a member ends in
\* UniversityError and changes nothing, addStudent of a non-member appends it.
C7_NoDuplicateStudents ==
    /\ [](NoDuplicates(students))
    /\ [][call'.op = "addStudent" =>
            IF ArrayIncludes(students, call'.arg)
            THEN call'.kind = "UniversityError" /\ students' = students
            ELSE call'.kind = "ok" /\ students' = Append(students, call'.arg)]_vars

\* A student removed earlier was added again, behind another member.
C7_Witness ==
    /\ call.op = "addStudent"
    /\ call.kind = "ok"
    /\ call.arg \in removed
    /\ Len(students) >= 2
    /\ students[Len(students)] = call.arg

\* The members' real average, as a quotient.
RealAverage(list) == Divide(reduceScores(list, 0), Len(list))

\* C8 as stated: for a roster that is not empty the call returns 0 and never the
\* members' real average; the division is reached only for the empty roster.
C8_NeverTheRealAverage ==
    call.op = "getAverageGroupScore" =>
        IF students # <<>>
        THEN /\ call.value.returned = Number(0)
             /\ call.value.divisor = Undefined
             /\ ~NumberEquals(call.value.returned, RealAverage(students))
        ELSE call.value.divisor = Some(0)

\* C8 amended: for a roster that is not empty the call returns 0 whatever the
\* members' gpa values are, which is their real average only when that average
\* is 0; the division is reached only for the empty roster, with divisor 0.
C8_ZeroForNonEmptyGroup ==
    call.op = "getAverageGroupScore" =>
        IF students # <<>>
        THEN /\ call.value.returned = Number(0)
             /\ call.value.divisor = Undefined
             /\ NumberEquals(call.value.returned, RealAverage(students))
                  <=> reduceScores(students, 0) = 0
        ELSE /\ call.value.divisor = Some(0)
             /\ IsNaN(call.value.returned)

\* The call returned 0 for two members whose real average is not 0.
C8_Witness ==
    /\ call.op = "getAverageGroupScore"
    /\ Len(students) >= 2
    /\ reduceScores(students, 0) # 0
    /\ call.value.returned = Number(0)

\* C9: the k-th Author, Book and Person constructed has id k, so ids are pairwise
\* distinct within a kind, and no Teacher shares an id with a Student.
C9_SequentialIds ==
    /\ \A k \in DOMAIN authorObjects : authorObjects[k].id = k
    /\ \A k \in DOMAIN bookObjects : bookObjects[k].id = k
    /\ \A k \in DOMAIN personObjects : personObjects[k].id = k
    /\ \A i, j \in DOMAIN personObjects :
         i # j => personObjects[i].id # personObjects[j].id
    /\ authorNextId = Len(authorObjects) + 1
    /\ bookNextId = Len(bookObjects) + 1
    /\ personNextId = Len(personObjects) + 1

\* Teachers and students were constructed in both orders, with authors and books.
C9_Witness ==
    /\ Len(personObjects) >= 3
    /\ personObjects[1].role = "teacher"
    /\ personObjects[2].role = "student"
    /\ personObjects[3].role = "teacher"
    /\ Len(authorObjects) >= 2
    /\ Len(bookObjects) >= 2

\* C10: getAuthorByBookId ends in LibraryError when the library holds no book
\* with that id, and otherwise returns the author of the book with that id.
C10_AuthorByBookId ==
    call.op = "getAuthorByBookId" =>
        LET books == Held(Get(library).books)
            HasId(b) == bookObjects[b].id = call.arg
        IN IF \A i \in DOMAIN books : ~HasId(books[i])
           THEN call.kind = "LibraryError"
           ELSE /\ call.kind = "ok"
                /\ \E i \in DOMAIN books :
                     HasId(books[i]) /\ call.value = Some(bookObjects[books[i]].author)

====
